---------------------------- MODULE Spec2Model ----------------------------
(***************************************************************************)
(* NearEarthObjects: the data model (models.py), the NEODatabase with its  *)
(* two lookup indices, the linking pass of its constructor and the lazy    *)
(* query generator (database.py).                                          *)
(*                                                                         *)
(* Objects live in two heaps, `neos` and `approaches`; an object's         *)
(* identity is its index in its heap, which is also its position in the    *)
(* collection the loader hands to the NEODatabase constructor.  The        *)
(* physical attributes (time, distance, velocity, diameter, hazardous) are *)
(* set once at construction and only copied afterwards; they are not part  *)
(* of the state modelled here.                                             *)
(***************************************************************************)
EXTENDS Naturals, Sequences, FiniteSets

VARIABLES
    neos,                \* heap of NearEarthObject: [designation, name, approaches]
    approaches,          \* heap of CloseApproach: [_designation, neo]
    neo_by_name,         \* NEODatabase.neo_by_name, a dict (function)
    neo_by_designation,  \* NEODatabase.neo_by_designation, a dict (function)
    _approaches,         \* NEODatabase._approaches, list of CloseApproach ids
    _neos,               \* NEODatabase._neos, list of the approaches' .neo
    links,               \* number of NEODatabase constructions over the heaps
    gens,                \* per consumer, the generator object query() returned to it
    ret                  \* the last call of a lookup or of serialize, and its outcome

vars == <<neos, approaches, neo_by_name, neo_by_designation, _approaches,
          _neos, links, gens, ret>>

---------------------------------------------------------------------------
(* Bounds of the model.                                                    *)
MaxNeos == 2
MaxApproaches == 2
MaxLinks == 2
MaxFilters == 2

---------------------------------------------------------------------------
(* Python values: None, a str, or a reference to a NearEarthObject.        *)
None == [kind |-> "None", s |-> "", ref |-> 0]

Str(x) == [kind |-> "str", s |-> x, ref |-> 0]

Ref(i) == [kind |-> "NearEarthObject", s |-> "", ref |-> i]

\* str(v): a str is itself, None becomes the four letters "None".
str(v) == IF v.kind = "None" THEN Str("None") ELSE Str(v.s)

\* bool(v): None and the empty str are falsy.
truthy(v) == ~(v.kind = "None" \/ (v.kind = "str" /\ v.s = ""))

\* NearEarthObject.__init__: designation = str(pdes); name = str(name) or None.
NearEarthObject(pdes, name) ==
    [designation |-> str(pdes),
     name        |-> IF truthy(str(name)) THEN str(name) ELSE None,
     approaches  |-> <<>>]

\* CloseApproach.__init__: _designation = str(des); neo = str(des) when des
\* is truthy, otherwise None.
CloseApproach(des) ==
    [_designation |-> str(des),
     neo          |-> IF truthy(des) THEN str(des) ELSE None]

---------------------------------------------------------------------------
(* The raw rows the loaders hand to the constructors.                      *)
RawPdes == {Str("a"), Str("b")}

RawNames == {None, Str(""), Str("x"), Str("None")}

RawDes == {Str("a"), Str("c"), Str("")}

\* The callers that hold a generator; a caller that calls query() again
\* drops the generator it held.
Consumers == {1, 2}

SeqsUpTo(S, n) == UNION {[1..k -> S] : k \in 0..n}

\* extract.load_neos: one NearEarthObject per row, in row order.
load_neos(rows) == [i \in DOMAIN rows |-> NearEarthObject(rows[i][1], rows[i][2])]

\* extract.load_approaches: one CloseApproach per row, in row order.
load_approaches(rows) == [i \in DOMAIN rows |-> CloseApproach(rows[i])]

NoDict == [k \in {} |-> None]

NoGen == [live |-> FALSE, filters |-> <<>>, started |-> FALSE, done |-> FALSE,
          it |-> 0, out |-> <<>>, evals |-> <<>>]

NoCall == [op |-> "", arg |-> None, self |-> 0,
           raised |-> "", shape |-> "", val |-> None,
           designation |-> None, name |-> None]

Unbuilt ==
    /\ neo_by_name = NoDict
    /\ neo_by_designation = NoDict
    /\ _approaches = <<>>
    /\ _neos = <<>>
    /\ links = 0
    /\ gens = [c \in Consumers |-> NoGen]
    /\ ret = NoCall

---------------------------------------------------------------------------
(* NEODatabase.__init__                                                    *)
Last(S) == CHOOSE i \in S : \A j \in S : j <= i

First(S) == CHOOSE i \in S : \A j \in S : i <= j

\* Mutant: the first NEO of a name keeps the key (setdefault).
DictByNameFirstWins(ns) ==
    [k \in {ns[i].name : i \in DOMAIN ns} |->
        Ref(First({i \in DOMAIN ns : ns[i].name = k}))]

\* {i.name: i for i in neos}: a later NEO overwrites an earlier one.
DictByName(ns) ==
    [k \in {ns[i].name : i \in DOMAIN ns} |->
        Ref(Last({i \in DOMAIN ns : ns[i].name = k}))]

\* Mutant: the designation index keyed by i.name.
DictByDesignationKeyedByName(ns) ==
    [k \in {ns[i].name : i \in DOMAIN ns} |->
        Ref(Last({i \in DOMAIN ns : ns[i].name = k}))]

\* {i.designation: i for i in neos}
DictByDesignation(ns) ==
    [k \in {ns[i].designation : i \in DOMAIN ns} |->
        Ref(Last({i \in DOMAIN ns : ns[i].designation = k}))]

\* Mutant: the NEO is set on the approach, the approach not appended.
link_neo_no_append(h, a, d) ==
    LET des == h.approaches[a]._designation IN
    [neos       |-> h.neos,
     approaches |-> [h.approaches EXCEPT
                       ![a].neo = IF des \in DOMAIN d THEN d[des] ELSE None],
     result     |-> <<a>>]

\* Mutant: no else branch, a miss leaves .neo as the constructor set it.
link_neo_miss_untouched(h, a, d) ==
    LET des == h.approaches[a]._designation IN
    IF des \in DOMAIN d
    THEN [neos       |-> [h.neos EXCEPT ![d[des].ref].approaches = Append(@, a)],
          approaches |-> [h.approaches EXCEPT ![a].neo = d[des]],
          result     |-> <<a>>]
    ELSE [neos |-> h.neos, approaches |-> h.approaches, result |-> <<a>>]

\* Mutant: the approach is inserted at the head of the NEO's list.
link_neo_prepend(h, a, d) ==
    LET des == h.approaches[a]._designation IN
    IF des \in DOMAIN d
    THEN [neos       |-> [h.neos EXCEPT ![d[des].ref].approaches = <<a>> \o @],
          approaches |-> [h.approaches EXCEPT ![a].neo = d[des]],
          result     |-> <<a>>]
    ELSE [neos       |-> h.neos,
          approaches |-> [h.approaches EXCEPT ![a].neo = None],
          result     |-> <<a>>]

\* CloseApproach.link_neo on approach a of heap h = [neos, approaches], with
\* the dict d; `result` is the value returned (self).
link_neo(h, a, d) ==
    LET des == h.approaches[a]._designation IN
    IF des \in DOMAIN d
    THEN [neos       |-> [h.neos EXCEPT ![d[des].ref].approaches = Append(@, a)],
          approaches |-> [h.approaches EXCEPT ![a].neo = d[des]],
          result     |-> <<a>>]
    ELSE [neos       |-> h.neos,
          approaches |-> [h.approaches EXCEPT ![a].neo = None],
          result     |-> <<a>>]

\* [i.link_neo(self.neo_by_designation) for i in approaches], from approach
\* k on; `list` collects the values returned.
RECURSIVE LinkAll(_, _, _)
LinkAll(h, k, d) ==
    IF k > Len(h.approaches) THEN h
    ELSE LET r == link_neo(h, k, d) IN
         LinkAll([neos |-> r.neos, approaches |-> r.approaches,
                  list |-> h.list \o r.result], k + 1, d)

NEODatabaseInit ==
    /\ links < MaxLinks
    /\ LET byName == DictByName(neos)
           byDes  == DictByDesignation(neos)
           h      == LinkAll([neos |-> neos, approaches |-> approaches,
                              list |-> <<>>], 1, byDes)
       IN /\ neo_by_name' = byName
          /\ neo_by_designation' = byDes
          /\ neos' = h.neos
          /\ approaches' = h.approaches
          /\ _approaches' = h.list
          /\ _neos' = [i \in DOMAIN h.list |-> h.approaches[h.list[i]].neo]
    /\ links' = links + 1
    /\ UNCHANGED <<gens, ret>>

---------------------------------------------------------------------------
(* Lookups                                                                 *)
get_neo_by_designation(designation) ==
    IF designation \in DOMAIN neo_by_designation
    THEN neo_by_designation[designation]
    ELSE None

get_neo_by_name(name) ==
    IF name \in DOMAIN neo_by_name
    THEN neo_by_name[name]
    ELSE None

\* The arguments the lookups are called with.
LookupArgs == {None, Str(""), Str("a"), Str("b"), Str("c"), Str("x"), Str("None")}

GetNeoByDesignation ==
    /\ links > 0
    /\ \E d \in LookupArgs :
          ret' = [NoCall EXCEPT !.op = "get_neo_by_designation", !.arg = d,
                                !.shape = "value",
                                !.val = get_neo_by_designation(d)]
    /\ UNCHANGED <<neos, approaches, neo_by_name, neo_by_designation,
                   _approaches, _neos, links, gens>>

GetNeoByName ==
    /\ links > 0
    /\ \E n \in LookupArgs :
          ret' = [NoCall EXCEPT !.op = "get_neo_by_name", !.arg = n,
                                !.shape = "value",
                                !.val = get_neo_by_name(n)]
    /\ UNCHANGED <<neos, approaches, neo_by_name, neo_by_designation,
                   _approaches, _neos, links, gens>>

---------------------------------------------------------------------------
(* CloseApproach.serialize                                                 *)
Serialized(shape, neo) ==
    IF neo.kind = "NearEarthObject"
    THEN [raised |-> "", shape |-> shape,
          designation |-> neos[neo.ref].designation,
          name |-> neos[neo.ref].name]
    ELSE \* self.neo is None or still a str: self.neo.designation raises
         [raised |-> "AttributeError", shape |-> "",
          designation |-> None, name |-> None]

\* Mutant: an unrecognized kind is treated as 'csv'.
serialize_default_csv(a, extension) ==
    IF extension = Str("json") THEN Serialized("nested", approaches[a].neo)
    ELSE Serialized("flat", approaches[a].neo)

serialize(a, extension) ==
    IF extension = Str("csv") THEN Serialized("flat", approaches[a].neo)
    ELSE IF extension = Str("json") THEN Serialized("nested", approaches[a].neo)
    ELSE IF extension \notin {Str("csv"), Str("json")}
    THEN [raised |-> "ValueError", shape |-> "",
          designation |-> None, name |-> None]
    ELSE \* falls off the end of the function: returns None
         [raised |-> "", shape |-> "value",
          designation |-> None, name |-> None]

\* The output kinds serialize is called with.
Extensions == {Str("csv"), Str("json"), Str(".csv"), Str("JSON"), Str(""), None}

\* One call of serialize; `val` keeps self.neo as it was at the call.
Serialize ==
    /\ \E a \in DOMAIN approaches, e \in Extensions :
          LET r == serialize(a, e) IN
          ret' = [op |-> "serialize", arg |-> e, self |-> a,
                  raised |-> r.raised, shape |-> r.shape,
                  val |-> approaches[a].neo,
                  designation |-> r.designation, name |-> r.name]
    /\ UNCHANGED <<neos, approaches, neo_by_name, neo_by_designation,
                   _approaches, _neos, links, gens>>

---------------------------------------------------------------------------
(* NEODatabase.query                                                       *)

\* The predicates the caller supplies, and what each returns on approach a.
Preds == {"true", "false", "linked"}

Pred(p, a) ==
    CASE p = "true"   -> TRUE
      [] p = "false"  -> FALSE
      [] p = "linked" -> approaches[a].neo.kind = "NearEarthObject"

\* Mutant: the iteration stops one item short.
ListNextShort(it, evals) ==
    IF it + 1 < Len(_approaches)
    THEN [stop |-> FALSE, item |-> _approaches[it + 1], it |-> it + 1, evals |-> evals]
    ELSE [stop |-> TRUE, item |-> 0, it |-> it, evals |-> evals]

\* The list iterator over self._approaches: `it` items were taken so far.
ListNext(it, evals) ==
    IF it < Len(_approaches)
    THEN [stop |-> FALSE, item |-> _approaches[it + 1], it |-> it + 1, evals |-> evals]
    ELSE [stop |-> TRUE, item |-> 0, it |-> it, evals |-> evals]

\* Mutant: the chain is built over reversed(filters).
FilterAtReversed(filters, level) == Len(filters) - level + 1

\* The position in `filters` of the predicate the filter object at chain
\* level `level` holds: the loop wraps them in the order supplied.
FilterAt(filters, level) == level

\* Mutant: every level calls the loop variable's last value (late binding).
FilterCallLateBound(filters, level, a) == Pred(filters[Len(filters)], a)

\* The call _filter(item) made by the filter object at `level`.
FilterCall(filters, level, a) == Pred(filters[FilterAt(filters, level)], a)

\* next() of the filter object at `level` (level 0 is the list iterator):
\* pull from the level below until its predicate accepts an item.  `evals`
\* logs each predicate call as <<position in filters, approach, result>>.
RECURSIVE FilterNext(_, _, _, _)
FilterNext(filters, level, it, evals) ==
    IF level = 0 THEN ListNext(it, evals)
    ELSE LET r == FilterNext(filters, level - 1, it, evals) IN
         IF r.stop THEN r
         ELSE LET ok == FilterCall(filters, level, r.item)
                  e  == Append(r.evals, <<FilterAt(filters, level), r.item, ok>>)
              IN IF ok THEN [r EXCEPT !.evals = e]
                 ELSE FilterNext(filters, level, r.it, e)

\* The generator object query(filters) returns: no line of the body has run.
NewGenerator(filters) ==
    [live |-> TRUE, filters |-> filters, started |-> FALSE, done |-> FALSE,
     it |-> 0, out |-> <<>>, evals |-> <<>>]

\* Every predicate call left from list position `it` on.
RECURSIVE Drain(_, _, _)
Drain(filters, it, evals) ==
    LET r == FilterNext(filters, Len(filters), it, evals) IN
    IF r.stop THEN r.evals ELSE Drain(filters, r.it, r.evals)

\* Mutant: the first next() materializes the filtered list, then yields
\* from it.
GenStepEager(g) ==
    LET r == IF g.filters # <<>>
             THEN FilterNext(g.filters, Len(g.filters), g.it, g.evals)
             ELSE ListNext(g.it, g.evals)
        e == IF g.filters # <<>> THEN Drain(g.filters, 0, <<>>) ELSE <<>>
    IN IF r.stop
       THEN [g EXCEPT !.started = TRUE, !.done = TRUE, !.it = r.it, !.evals = e]
       ELSE [g EXCEPT !.started = TRUE, !.it = r.it, !.evals = e,
                      !.out = Append(@, r.item)]

\* One next() on generator g: run the body to the next yield or to its end.
GenStep(g) ==
    LET r == IF g.filters # <<>>
             THEN FilterNext(g.filters, Len(g.filters), g.it, g.evals)
             ELSE ListNext(g.it, g.evals)
    IN IF r.stop
       THEN [g EXCEPT !.started = TRUE, !.done = TRUE, !.it = r.it, !.evals = r.evals]
       ELSE [g EXCEPT !.started = TRUE, !.it = r.it, !.evals = r.evals,
                      !.out = Append(@, r.item)]

Query ==
    /\ links > 0
    /\ \E c \in Consumers, filters \in SeqsUpTo(Preds, MaxFilters) :
          gens' = [gens EXCEPT ![c] = NewGenerator(filters)]
    /\ UNCHANGED <<neos, approaches, neo_by_name, neo_by_designation,
                   _approaches, _neos, links, ret>>

GenNext ==
    /\ \E c \in Consumers :
          /\ gens[c].live
          /\ ~gens[c].done
          /\ gens' = [gens EXCEPT ![c] = GenStep(gens[c])]
    /\ UNCHANGED <<neos, approaches, neo_by_name, neo_by_designation,
                   _approaches, _neos, links, ret>>

---------------------------------------------------------------------------
(* Spec: construction and the two lookups, over NEOs of every small choice *)
(* of designations and names.                                              *)
LookupRawDes == {Str("a")}

Init ==
    /\ \E rows \in SeqsUpTo(RawPdes \X RawNames, MaxNeos) : neos = load_neos(rows)
    /\ \E rows \in SeqsUpTo(LookupRawDes, MaxApproaches) : approaches = load_approaches(rows)
    /\ Unbuilt

Next == NEODatabaseInit \/ GetNeoByDesignation \/ GetNeoByName

Spec == Init /\ [][Next]_vars

(* SpecLink: construction (also repeated over heaps already linked) and    *)
(* serialize, over every small choice of designations on both sides.      *)
LinkRawNames == {Str("x")}

InitLink ==
    /\ \E rows \in SeqsUpTo(RawPdes \X LinkRawNames, MaxNeos) : neos = load_neos(rows)
    /\ \E rows \in SeqsUpTo(RawDes, MaxApproaches) : approaches = load_approaches(rows)
    /\ Unbuilt

NextLink == NEODatabaseInit \/ Serialize

SpecLink == InitLink /\ [][NextLink]_vars

(* SpecQuery: one construction, then the query generators of two callers,  *)
(* interleaved in every way, over one NEO and every small list of          *)
(* approaches that match it or not.                                        *)
QueryRawNeos == <<<<Str("a"), Str("x")>>>>

QueryRawDes == {Str("a"), Str("c")}

InitQuery ==
    /\ neos = load_neos(QueryRawNeos)
    /\ \E rows \in SeqsUpTo(QueryRawDes, MaxApproaches) : approaches = load_approaches(rows)
    /\ Unbuilt

NextQuery == (links = 0 /\ NEODatabaseInit) \/ Query \/ GenNext

SpecQuery == InitQuery /\ [][NextQuery]_vars

---------------------------------------------------------------------------
(* Vocabulary of the properties.                                           *)
NonEmptyName(v) == v.kind = "str" /\ v.s # ""

DistinctIdentifiers ==
    \A i, j \in DOMAIN neos :
        i # j => neos[i].designation # neos[j].designation

Count(seq, x) == Cardinality({k \in DOMAIN seq : seq[k] = x})

Range(seq) == {seq[k] : k \in DOMAIN seq}

---------------------------------------------------------------------------
\* C1: get_neo_by_name("") and get_neo_by_name(None) return None (not
\* found) whatever the data set, also when NEOs were constructed with an
\* absent or an empty name.
C1_EmptyOrNullNameNotFound ==
    (ret.op = "get_neo_by_name" /\ ret.arg \in {None, Str("")})
        => ret.val = None

\* C2, as claimed: with distinct designations, for every NEO with a
\* non-empty name, get_neo_by_name of that name returns that NEO, whatever
\* names the NEOs carry.
C2_EveryNamedNeoFound ==
    (ret.op = "get_neo_by_name" /\ DistinctIdentifiers)
        => \A i \in DOMAIN neos :
              (NonEmptyName(neos[i].name) /\ ret.arg = neos[i].name)
                  => ret.val = Ref(i)

\* C2, amended: with distinct designations, for every NEO with a non-empty
\* name that no NEO later in the collection carries, get_neo_by_name of that
\* name returns that NEO; of several NEOs sharing a name, the last one
\* supplied is returned.
C2_LastOfNameFound ==
    (ret.op = "get_neo_by_name" /\ DistinctIdentifiers)
        => \A i \in DOMAIN neos :
              ( /\ NonEmptyName(neos[i].name)
                /\ ret.arg = neos[i].name
                /\ \A j \in DOMAIN neos : j > i => neos[j].name # neos[i].name )
                  => ret.val = Ref(i)

\* Two NEOs of distinct designations share a non-empty name, and the lookup
\* of that name has returned the second.
C2_Witness ==
    /\ ret.op = "get_neo_by_name"
    /\ DistinctIdentifiers
    /\ Len(neos) = 2
    /\ NonEmptyName(neos[1].name)
    /\ neos[1].name = neos[2].name
    /\ ret.arg = neos[2].name
    /\ ret.val = Ref(2)

\* C3: with pairwise distinct designations, get_neo_by_designation of a
\* NEO's designation returns exactly that NEO, and of a string that is no
\* NEO's designation returns None and raises nothing.
C3_DesignationLookup ==
    (ret.op = "get_neo_by_designation" /\ DistinctIdentifiers)
        => /\ \A i \in DOMAIN neos :
                 ret.arg = neos[i].designation => ret.val = Ref(i)
           /\ ( /\ ret.arg.kind = "str"
                /\ \A i \in DOMAIN neos : ret.arg # neos[i].designation )
                  => (ret.val = None /\ ret.raised = "")

\* The lookup of the first of two NEOs' designations has returned it.
C3_Witness ==
    /\ ret.op = "get_neo_by_designation"
    /\ DistinctIdentifiers
    /\ Len(neos) = 2
    /\ ret.arg = neos[1].designation
    /\ ret.val = Ref(1)

---------------------------------------------------------------------------
Linked(a) == approaches[a].neo.kind = "NearEarthObject"

\* The approach's _designation is no NEO's designation.
Unmatched(a) ==
    \A b \in DOMAIN neos : neos[b].designation # approaches[a]._designation

\* C4: after one construction over unlinked heaps, every approach whose
\* .neo is a NEO occurs exactly once in that NEO's .approaches, and that
\* NEO's designation is the approach's _designation.
C4_LinkedOnceConsistent ==
    links = 1
        => \A a \in DOMAIN approaches :
              Linked(a)
                  => /\ Count(neos[approaches[a].neo.ref].approaches, a) = 1
                     /\ neos[approaches[a].neo.ref].designation
                            = approaches[a]._designation

\* One construction has linked two approaches to the same NEO.
C4_Witness ==
    /\ links = 1
    /\ Len(approaches) = 2
    /\ Linked(1) /\ Linked(2)
    /\ approaches[1].neo = approaches[2].neo
    /\ neos[approaches[1].neo.ref].approaches = <<1, 2>>

\* C5: after linking, every approach whose _designation is no NEO's
\* designation has .neo None (not the string it held before), is in no
\* NEO's .approaches, and is among what a fully consumed query(()) yielded.
C5_UnmatchedUnresolved ==
    links >= 1
        => \A a \in DOMAIN approaches :
              Unmatched(a)
                  => /\ approaches[a].neo = None
                     /\ \A b \in DOMAIN neos : a \notin Range(neos[b].approaches)
                     /\ a \in Range(_approaches)
                     /\ \A c \in Consumers :
                           (gens[c].live /\ gens[c].filters = <<>> /\ gens[c].done)
                               => a \in Range(gens[c].out)

\* An unmatched approach stored before a matched one, and a query(())
\* consumed to its end.
C5_Witness ==
    /\ links = 1
    /\ Len(approaches) = 2
    /\ Unmatched(1) /\ Linked(2)
    /\ approaches[1].neo = None
    /\ gens[1].live /\ gens[1].filters = <<>> /\ gens[1].done
    /\ 1 \in Range(gens[1].out)

\* The approach collection handed to the constructor, as object ids in order.
Supplied == [i \in DOMAIN approaches |-> i]

IsPrefix(p, q) == Len(p) <= Len(q) /\ \A k \in DOMAIN p : p[k] = q[k]

\* C6: every generator of query(()) yields the approaches handed to the
\* constructor, in their order: what it has yielded so far is a prefix of
\* them, its k-th next() yields the k-th, and when it ends it has yielded
\* them all; whatever other generators exist and however far they were
\* consumed.
C6_UnfilteredQueryYieldsAll ==
    \A c \in Consumers :
        (gens[c].live /\ gens[c].filters = <<>>)
            => /\ IsPrefix(gens[c].out, Supplied)
               /\ gens[c].done => gens[c].out = Supplied
               /\ (gens[c].started /\ ~gens[c].done) => gens[c].out # <<>>

\* A second query(()) consumed to its end while an earlier filtered query
\* is partly consumed.
C6_Witness ==
    /\ Len(approaches) = 2
    /\ gens[1].live /\ gens[1].filters # <<>>
    /\ gens[1].started /\ ~gens[1].done
    /\ gens[2].live /\ gens[2].filters = <<>> /\ gens[2].done
    /\ gens[2].out = <<1, 2>>

\* Every predicate of the collection accepts approach a.
AllAccept(filters, a) == \A k \in DOMAIN filters : Pred(filters[k], a)

Accepted(filters) ==
    LET Keep(a) == AllAccept(filters, a) IN SelectSeq(_approaches, Keep)

\* C7: a generator of a query with a non-empty predicate collection, once
\* consumed to its end, has yielded exactly the stored approaches that every
\* predicate accepts, in storage order; so nothing when some predicate is
\* always false, and what query(()) yields when the one predicate is always
\* true.
C7_FilteredQueryIsConjunction ==
    \A c \in Consumers :
        (gens[c].live /\ gens[c].filters # <<>>)
            => /\ IsPrefix(gens[c].out, Accepted(gens[c].filters))
               /\ gens[c].done
                    => /\ gens[c].out = Accepted(gens[c].filters)
                       /\ "false" \in Range(gens[c].filters) => gens[c].out = <<>>
                       /\ gens[c].filters = <<"true">> => gens[c].out = _approaches

\* A two-predicate query consumed to its end kept the second of two stored
\* approaches and dropped the first.
C7_Witness ==
    /\ Len(_approaches) = 2
    /\ gens[1].live /\ gens[1].done
    /\ gens[1].filters = <<"true", "linked">>
    /\ gens[1].out = <<2>>

\* The position of approach a in the stored list.
PosOf(a) == CHOOSE i \in DOMAIN _approaches : _approaches[i] = a

\* C8: a generator that query() returned and nobody advanced has evaluated
\* no predicate; and when the consumer holds the k-th yielded approach, no
\* predicate has been evaluated on an approach stored after it, nor has the
\* list been read beyond it.
C8_Lazy ==
    \A c \in Consumers :
        gens[c].live
            => /\ ~gens[c].started => (gens[c].evals = <<>> /\ gens[c].it = 0)
               /\ (~gens[c].done /\ gens[c].out # <<>>)
                    => LET last == gens[c].out[Len(gens[c].out)] IN
                       /\ gens[c].it = PosOf(last)
                       /\ \A k \in DOMAIN gens[c].evals :
                             PosOf(gens[c].evals[k][2]) <= PosOf(last)

\* The consumer holds the first of two stored approaches, both of which the
\* predicate accepts; the predicate was called on the first only.
C8_Witness ==
    /\ Len(_approaches) = 2
    /\ Linked(1) /\ Linked(2)
    /\ gens[1].live /\ ~gens[1].done
    /\ gens[1].filters = <<"linked">>
    /\ gens[1].out = <<1>>
    /\ gens[1].evals = <<<<1, 1, TRUE>>>>

C10_InOrderShortCircuit ==
    \A c \in Consumers :
        gens[c].live
            => LET e == gens[c].evals IN
               \A k \in DOMAIN e :
                   /\ e[k][1] \in DOMAIN gens[c].filters
                   /\ e[k][3] = Pred(gens[c].filters[e[k][1]], e[k][2])
                   /\ e[k][1] > 1
                        => (k > 1 /\ e[k - 1] = <<e[k][1] - 1, e[k][2], TRUE>>)
                   /\ \A i \in 1..(e[k][1] - 1) :
                         \E j \in 1..(k - 1) : e[j] = <<i, e[k][2], TRUE>>
                   /\ \A j \in DOMAIN e :
                         /\ (j > k /\ ~e[k][3]) => e[j][2] # e[k][2]
                         /\ (j # k) => <<e[j][1], e[j][2]>> # <<e[k][1], e[k][2]>>
                         /\ (j > k /\ e[j][1] = 1 /\ e[k][1] = 1)
                              => PosOf(e[k][2]) < PosOf(e[j][2])

\* A two-predicate query consumed to its end: the first predicate rejected
\* the first approach, which the second predicate then never saw.
C10_Witness ==
    /\ Len(_approaches) = 2
    /\ gens[1].live /\ gens[1].done
    /\ gens[1].filters = <<"linked", "true">>
    /\ gens[1].evals = <<<<1, 1, FALSE>>, <<1, 2, TRUE>>, <<2, 2, TRUE>>>>

\* The supplied approaches whose _designation is NEO b's designation, in the
\* order supplied.
ApproachesOf(b) ==
    LET Mine(a) == approaches[a]._designation = neos[b].designation
    IN SelectSeq(Supplied, Mine)

\* C11: after one construction over unlinked heaps whose NEOs have pairwise
\* distinct designations, each NEO's .approaches is exactly the supplied
\* approaches of its designation, in the order supplied: none missing, none
\* extra, not reordered.
C11_ApproachesInInputOrder ==
    (links = 1 /\ DistinctIdentifiers)
        => \A b \in DOMAIN neos : neos[b].approaches = ApproachesOf(b)

\* Of two NEOs with distinct designations, one construction gave the first
\* both supplied approaches, in the order supplied, and the second none.
C11_Witness ==
    /\ links = 1
    /\ DistinctIdentifiers
    /\ Len(neos) = 2
    /\ Len(approaches) = 2
    /\ neos[1].approaches = <<1, 2>>
    /\ neos[2].approaches = <<>>

\* C12: serialize with 'csv' or 'json' on an approach whose .neo linking left
\* None raises the dedicated UnlinkedApproach error: it returns no record and
\* raises nothing else (not the error of reading an attribute of None).
\* (An approach constructed with a truthy des holds None only once link_neo
\* has missed, so the call recorded was made after linking.)
C12_UnlinkedApproachFailsFast ==
    ( /\ ret.op = "serialize"
      /\ ret.arg \in {Str("csv"), Str("json")}
      /\ links >= 1
      /\ truthy(approaches[ret.self]._designation)
      /\ ret.val = None )
        => (ret.raised = "UnlinkedApproach" /\ ret.shape = "")
===========================================================================
